---- MODULE Spec2Model ----
(***************************************************************************)
(* A model of aiokef's _AsyncCommunicator (src/aiokef/aiokef.py): the      *)
(* connection handles, the online flag, the activity time stamp, the idle  *)
(* task started by the constructor, and caller tasks that run              *)
(* send_message (the retried exchange every speaker command goes through)  *)
(* or is_online on the one event loop.  A step of the model is what a      *)
(* coroutine does between two suspension points (await), or one event of   *)
(* the network, the peer or the clock.                                     *)
(*                                                                         *)
(* On top of it, AsyncKefSpeaker's retried commands (get_source_and_state, *)
(* set_source, _set_volume) against a device that keeps a source byte and  *)
(* a volume byte.  There a step is what the command does between two       *)
(* awaits, and one call of send_message is taken whole: it returns the     *)
(* byte the exchange yields, or fails after its own attempts.              *)
(***************************************************************************)
EXTENDS Integers, FiniteSets, Sequences, TLC

\* ---------------------------------------------------------------- constants
_RESPONSE_OK == 17
_KEEP_ALIVE == 20
_TIMEOUT == 2
_VOLUME_SCALE == 100
_MAX_ATTEMPT_TILL_SUCCESS == 5
_MAX_SEND_MESSAGE_TRIES == 5
_MAX_CONNECTION_RETRIES == 10
\* kef_api.py: the tries of its decorated methods
_MAX_SEND_COMMAND_TRIES == 5

\* ------------------------------------------------------------------- bounds
\* sockets the endpoint accepts in one behaviour
MaxSockets == 2
\* advances of the wall clock in one behaviour
MaxTicks == 2
\* calls the caller task makes in one behaviour
MaxCalls == 2
\* connect attempts counted per open_connection call (the count saturates)
CapAttempts == 12
\* bytes in the longest reply one read() returns
MaxReplyLen == 3
\* largest tries given to the synchronous API's retry decorator
MaxTries == 6

None == 0
Tasks == {"t1", "t2"}
SockIds == 1..MaxSockets
\* representative lengths of time between two steps, in seconds
Durations == {1, _KEEP_ALIVE}
\* time.time() when the communicator is constructed: any epoch time, which
\* is further than the keep-alive window from the initial stamp 0.0
StartTime == _KEEP_ALIVE + 1
\* representative bytes of a reply
WireBytes == {_RESPONSE_OK, 255}
\* the replies of n bytes
Replies(n) == [1..n -> WireBytes]
\* the replies of 2 bytes or more
LongReplies == UNION {Replies(n) : n \in 2..MaxReplyLen}
\* the reply of a speaker that acknowledges a command
OkReply == <<255, _RESPONSE_OK, 255>>
\* a reply cut to its last byte
CutReply == <<255>>
\* the value of a frame whose call has returned no number
Unbound == -1

VARIABLES
  _reader,            \* self._reader: None or the socket of the stream
  _writer,            \* self._writer
  _last_time_stamp,   \* self._last_time_stamp
  _is_online,         \* self._is_online
  now,                \* time.time()
  ticks,              \* advances of the clock so far
  sock,               \* socket -> "none", "open", "eof", "reset", "closing", "closed"
  idle_pc,            \* _disconnect_if_passive: "check", "closing", "sleep", "dead"
  idle_sock,          \* the writer whose wait_closed() the idle task awaits
  task,               \* caller task -> its frame (see TaskInit)
  callsLeft,          \* caller task -> calls it may still start
  dev,                \* the device: its source byte and its volume byte
  sp,                 \* the frame of a speaker command (see SpInit)
  wire,               \* socket -> the bytes under way (see WireInit)
  rt                  \* the frame of a call through the synchronous API's
                      \* retry decorator (see RtInit)

vars == <<_reader, _writer, _last_time_stamp, _is_online, now, ticks, sock,
          idle_pc, idle_sock, task, callsLeft, dev, sp, wire, rt>>

\* the communicator's variables / the speaker layer's.  wire is written only
\* by the actions that follow the bytes of an exchange, rt only by the steps
\* of the synchronous API's decorator; both are listed on both sides, for the
\* actions of either layer leave them alone.
comm == <<_reader, _writer, _last_time_stamp, _is_online, now, ticks, sock,
          idle_pc, idle_sock, task, callsLeft, wire, rt>>
speaker == <<dev, sp, wire, rt>>

shared == <<_reader, _writer, _last_time_stamp, _is_online>>
idle == <<idle_pc, idle_sock>>
clock == <<now, ticks>>

\* A caller's frame.  pc: "idle", "connecting" (await wait_for(open_connection)),
\* "oc_sleep" (await sleep(1) in open_connection), "drain_yield" (await drain()
\* on a closing transport), "reading" (await wait_for(read)), "read_busy"
\* (read() while another coroutine waits on the reader), "retry_wait" (the
\* retry decorator's sleep), "done".
\* ocOut: how the last open_connection call of the frame ended ("alive", "ok",
\* "offline", "exceeded"); ocAttempts: connect attempts that call has made;
\* conn: what the network answered to its latest connect attempt ("ok",
\* "refused", "blocking", "terminal"); blocked: whether it answered
\* BlockingIOError to an attempt of that call.  sawClosed / envFault: whether
\* an attempt of the send_message call failed on a closed socket / for
\* another reason.  data: the bytes the attempt's read() returned; value: the
\* number the call returned; fail: how the latest attempt failed ("none",
\* "offline", "exceeded", "drain", "timeout", "short", "eof", "reset",
\* "busy"); raised: the exception the call ended with; msg: the command the
\* call sends, where the bytes are followed.
TaskInit ==
  [pc |-> "idle", op |-> "none", attempt |-> 0, retries |-> 0, xsock |-> None,
   result |-> "none", ocOut |-> "none", ocAttempts |-> 0, conn |-> "none",
   blocked |-> FALSE, sawClosed |-> FALSE, envFault |-> FALSE,
   data |-> <<>>, value |-> Unbound, fail |-> "none", raised |-> "none",
   msg |-> "none"]

Ops == {"send_message", "is_online"}

Min(a, b) == IF a < b THEN a ELSE b
Max(a, b) == IF a > b THEN a ELSE b

\* ------------------------------------------------------------ communicator
is_connected == <<_reader, _writer>> # <<None, None>>

\* mutant: the window taken in milliseconds
time_is_up_ms == now - _last_time_stamp > 1000 * _KEEP_ALIVE

\* mutant: the window includes its bound
time_is_up_ge == now - _last_time_stamp >= _KEEP_ALIVE

time_is_up == now - _last_time_stamp > _KEEP_ALIVE

\* read() raises RuntimeError when another coroutine already waits on the reader
Busy(t, rd) == \E u \in Tasks \ {t} : task[u].pc = "reading" /\ task[u].xsock = rd

\* mutant: is_online without its "finally: return"
RaisedNoFinally(r, online) ==
  IF r.op = "is_online" \/ r.attempt >= _MAX_SEND_MESSAGE_TRIES
  THEN [r EXCEPT !.pc = "done", !.retries = 0, !.xsock = None,
                 !.result = "error", !.raised = "ConnectionRefusedError"]
  ELSE [r EXCEPT !.pc = "retry_wait", !.retries = 0, !.xsock = None]

\* An exception leaves the body of the call.  send_message: the retry decorator
\* sleeps and runs the body again, or gives up after the last attempt.
\* is_online: "finally: return self._comm._is_online" swallows it.
Raised(r, online) ==
  IF r.op = "is_online"
  THEN [r EXCEPT !.pc = "done", !.retries = 0, !.xsock = None,
                 !.result = IF online THEN "online" ELSE "offline"]
  ELSE IF r.attempt >= _MAX_SEND_MESSAGE_TRIES
       THEN [r EXCEPT !.pc = "done", !.retries = 0, !.xsock = None,
                      !.result = "error", !.raised = "RetryError"]
       ELSE [r EXCEPT !.pc = "retry_wait", !.retries = 0, !.xsock = None]

\* _send_message up to its first suspension: the assertions, write(), drain()
\* and the call of read().  wr, rd: the handles; sk: the sockets' states.
StartExchange(r, rd, wr, sk, busy, online) ==
  IF sk[wr] = "reset"
  THEN Raised([r EXCEPT !.sawClosed = TRUE, !.fail = "drain"], online)
  ELSE IF sk[wr] \in {"closing", "closed"}
       THEN [r EXCEPT !.pc = "drain_yield", !.xsock = wr]
       ELSE IF busy
            THEN [r EXCEPT !.pc = "read_busy", !.xsock = rd]
            ELSE [r EXCEPT !.pc = "reading", !.xsock = rd]

\* open_connection has returned normally to its caller
AfterOpen(r, rd, wr, sk, busy, online) ==
  IF r.op = "is_online"
  THEN [r EXCEPT !.pc = "done", !.retries = 0,
                 !.result = IF online THEN "online" ELSE "offline"]
  ELSE StartExchange([r EXCEPT !.retries = 0], rd, wr, sk, busy, online)

\* The body of the call from its start to its first suspension:
\* open_connection returns at once when connected, else starts to connect.
Body(t, r) ==
  IF is_connected
  THEN AfterOpen([r EXCEPT !.ocOut = "alive", !.ocAttempts = 0, !.conn = "none",
                           !.blocked = FALSE, !.data = <<>>],
                 _reader, _writer, sock, Busy(t, _reader), _is_online)
  ELSE [r EXCEPT !.pc = "connecting", !.retries = 0, !.ocOut = "none",
                 !.ocAttempts = 1, !.conn = "none", !.blocked = FALSE,
                 !.data = <<>>]

\* mutant: the loop bound off by one
LoopAgainLe(retries) == retries <= _MAX_CONNECTION_RETRIES

\* open_connection's loop condition: another attempt after `retries` of them
LoopAgain(retries) == retries < _MAX_CONNECTION_RETRIES

\* ------------------------------------------------------------ caller tasks
StartCall(t, o) ==
  /\ task[t].pc \in {"idle", "done"}
  /\ callsLeft[t] > 0
  /\ callsLeft' = [callsLeft EXCEPT ![t] = @ - 1]
  /\ task' = [task EXCEPT ![t] = Body(t, [TaskInit EXCEPT !.op = o, !.attempt = 1])]
  /\ UNCHANGED <<shared, clock, sock, idle, speaker>>

RetryWake(t) ==
  /\ task[t].pc = "retry_wait"
  /\ task' = [task EXCEPT ![t] = Body(t, [@ EXCEPT !.attempt = @ + 1])]
  /\ UNCHANGED <<shared, clock, sock, idle, callsLeft, speaker>>

\* mutant: the successful branch does not stamp the time of the connect
ConnectOKNoStamp(t) ==
  /\ task[t].pc = "connecting"
  /\ \E s \in SockIds :
       /\ sock[s] = "none"
       /\ \A u \in SockIds : u < s => sock[u] # "none"
       /\ sock' = [sock EXCEPT ![s] = "open"]
       /\ _reader' = s
       /\ _writer' = s
       /\ _is_online' = TRUE
       /\ task' = [task EXCEPT ![t] =
            AfterOpen([@ EXCEPT !.ocOut = "ok", !.conn = "ok"],
                      s, s, sock', Busy(t, s), TRUE)]
  /\ UNCHANGED <<_last_time_stamp, clock, idle, callsLeft, speaker>>

ConnectOK(t) ==
  /\ task[t].pc = "connecting"
  /\ \E s \in SockIds :
       /\ sock[s] = "none"
       /\ \A u \in SockIds : u < s => sock[u] # "none"
       /\ sock' = [sock EXCEPT ![s] = "open"]
       /\ _reader' = s
       /\ _writer' = s
       /\ _is_online' = TRUE
       /\ _last_time_stamp' = now
       /\ task' = [task EXCEPT ![t] =
            AfterOpen([@ EXCEPT !.ocOut = "ok", !.conn = "ok"],
                      s, s, sock', Busy(t, s), TRUE)]
  /\ UNCHANGED <<clock, idle, callsLeft, speaker>>

ConnectRefused(t) ==
  /\ task[t].pc = "connecting"
  /\ task' = [task EXCEPT ![t] = [@ EXCEPT !.pc = "oc_sleep", !.conn = "refused", !.envFault = TRUE]]
  /\ UNCHANGED <<shared, clock, sock, idle, callsLeft, speaker>>

ConnectBlocking(t) ==
  /\ task[t].pc = "connecting"
  /\ task' = [task EXCEPT ![t] =
       [@ EXCEPT !.pc = "oc_sleep", !.retries = 0, !.conn = "blocking",
                 !.blocked = TRUE, !.envFault = TRUE]]
  /\ UNCHANGED <<shared, clock, sock, idle, callsLeft, speaker>>

\* mutant: a terminal failure handled like a refusal (sleep, next attempt)
ConnectTerminalRetried(t) ==
  /\ task[t].pc = "connecting"
  /\ _is_online' = FALSE
  /\ task' = [task EXCEPT ![t] =
       [@ EXCEPT !.pc = "oc_sleep", !.conn = "terminal", !.envFault = TRUE]]
  /\ UNCHANGED <<_reader, _writer, _last_time_stamp, clock, sock, idle, callsLeft, speaker>>

ConnectTerminal(t) ==
  /\ task[t].pc = "connecting"
  /\ _is_online' = FALSE
  /\ task' = [task EXCEPT ![t] =
       Raised([@ EXCEPT !.ocOut = "offline", !.conn = "terminal",
                        !.envFault = TRUE, !.fail = "offline"], FALSE)]
  /\ UNCHANGED <<_reader, _writer, _last_time_stamp, clock, sock, idle, callsLeft, speaker>>

OCSleepDone(t) ==
  /\ task[t].pc = "oc_sleep"
  /\ LET n == task[t].retries + 1 IN
       IF LoopAgain(n)
       THEN /\ task' = [task EXCEPT ![t] =
                 [@ EXCEPT !.pc = "connecting", !.retries = n, !.conn = "none",
                           !.ocAttempts = Min(@ + 1, CapAttempts)]]
            /\ UNCHANGED _is_online
       ELSE /\ _is_online' = FALSE
            /\ task' = [task EXCEPT ![t] =
                 Raised([@ EXCEPT !.retries = n, !.ocOut = "exceeded",
                                  !.fail = "exceeded"], FALSE)]
  /\ UNCHANGED <<_reader, _writer, _last_time_stamp, clock, sock, idle, callsLeft, speaker>>

\* drain() on a transport that close() was called on yields once and raises
\* ConnectionResetError after connection_lost
DrainLost(t) ==
  /\ task[t].pc = "drain_yield"
  /\ sock[task[t].xsock] = "closed"
  /\ task' = [task EXCEPT ![t] =
       Raised([@ EXCEPT !.sawClosed = TRUE, !.fail = "drain"], _is_online)]
  /\ UNCHANGED <<shared, clock, sock, idle, callsLeft, speaker>>

\* mutant: the last byte of the buffer
LastByte(data) == data[Len(data)]

\* data[-2]
SecondToLast(data) == data[Len(data) - 1]

\* mutant: a buffer of one byte is returned from as well
ReturnShort(r, data, online) ==
  IF Len(data) >= 1
  THEN [r EXCEPT !.pc = "done", !.xsock = None, !.data = data, !.fail = "none",
                 !.result = "reply", !.value = data[1]]
  ELSE Raised([r EXCEPT !.data = data, !.sawClosed = TRUE, !.fail = "eof"], online)

\* "finally: return data[-2]" after read() returned data: the index exists in
\* a buffer of 2 bytes or more, else IndexError leaves the call
Return(r, data, online) ==
  IF Len(data) >= 2
  THEN [r EXCEPT !.pc = "done", !.xsock = None, !.data = data, !.fail = "none",
                 !.result = "reply", !.value = SecondToLast(data)]
  ELSE IF Len(data) = 1
       THEN Raised([r EXCEPT !.data = data, !.envFault = TRUE, !.fail = "short"], online)
       ELSE Raised([r EXCEPT !.data = data, !.sawClosed = TRUE, !.fail = "eof"], online)

\* a reply of at least 2 bytes: the stamp is set and data[-2] returned
ReplyOK(t, data) ==
  /\ task[t].pc = "reading"
  /\ sock[task[t].xsock] = "open"
  /\ Len(data) >= 2
  /\ _last_time_stamp' = now
  /\ task' = [task EXCEPT ![t] = Return(@, data, _is_online)]
  /\ UNCHANGED <<_reader, _writer, _is_online, clock, sock, idle, callsLeft, speaker>>

\* a reply of 1 byte: the stamp is set (line 112), then data[-2] raises
ReplyShort(t, data) ==
  /\ task[t].pc = "reading"
  /\ sock[task[t].xsock] = "open"
  /\ Len(data) = 1
  /\ _last_time_stamp' = now
  /\ task' = [task EXCEPT ![t] = Return(@, data, _is_online)]
  /\ UNCHANGED <<_reader, _writer, _is_online, clock, sock, idle, callsLeft, speaker>>

\* mutant: a timeout tears the connection down
ReplyTimeoutDisconnects(t) ==
  /\ task[t].pc = "reading"
  /\ sock[task[t].xsock] \in {"open", "closing"}
  /\ _reader' = None
  /\ _writer' = None
  /\ task' = [task EXCEPT ![t] =
       Raised([@ EXCEPT !.envFault = TRUE, !.fail = "timeout"], _is_online)]
  /\ UNCHANGED <<_last_time_stamp, _is_online, clock, sock, idle, callsLeft, speaker>>

\* no reply within _TIMEOUT: data is unbound and "return data[-2]" raises
ReplyTimeout(t) ==
  /\ task[t].pc = "reading"
  /\ sock[task[t].xsock] \in {"open", "closing"}
  /\ task' = [task EXCEPT ![t] =
       Raised([@ EXCEPT !.envFault = TRUE, !.fail = "timeout"], _is_online)]
  /\ UNCHANGED <<shared, clock, sock, idle, callsLeft, speaker>>

\* no reply within _TIMEOUT, where the bytes are followed: the buffer stayed
\* empty
WireTimeout(t) ==
  /\ task[t].pc = "reading"
  /\ wire[task[t].xsock].rx = <<>>
  /\ ReplyTimeout(t)

\* end of stream (the peer closed, or the transport was closed locally):
\* read() returns b"", the stamp is set, then data[-2] raises
ReadEOF(t) ==
  /\ task[t].pc = "reading"
  /\ sock[task[t].xsock] \in {"eof", "closed"}
  /\ _last_time_stamp' = now
  /\ task' = [task EXCEPT ![t] = Return(@, <<>>, _is_online)]
  /\ UNCHANGED <<_reader, _writer, _is_online, clock, sock, idle, callsLeft, speaker>>

\* the connection was reset: read() raises, and so does "return data[-2]"
ReadReset(t) ==
  /\ task[t].pc = "reading"
  /\ sock[task[t].xsock] = "reset"
  /\ task' = [task EXCEPT ![t] =
       Raised([@ EXCEPT !.sawClosed = TRUE, !.fail = "reset"], _is_online)]
  /\ UNCHANGED <<shared, clock, sock, idle, callsLeft, speaker>>

ReadBusy(t) ==
  /\ task[t].pc = "read_busy"
  /\ task' = [task EXCEPT ![t] =
       Raised([@ EXCEPT !.envFault = TRUE, !.fail = "busy"], _is_online)]
  /\ UNCHANGED <<shared, clock, sock, idle, callsLeft, speaker>>

\* ------------------------------------------------------- bytes under way
\* owed: the commands the device has received on the socket and not answered
\* yet; rx: the bytes of its answers in the StreamReader's buffer, not read yet
WireInit == [s \in SockIds |-> [owed |-> <<>>, rx |-> <<>>]]

\* the commands a caller reads the device with
Messages == {"get_source", "get_volume"}

\* the device's answer to a command: a frame with the value second to last
DeviceReply(m) == IF m = "get_source" THEN dev.source ELSE dev.volume

ReplyFrame(b) == <<255, b, 255>>

\* write(message) of an exchange that got as far as read(): the device
\* receives the command
Sent(w, r) ==
  IF r.pc = "reading" THEN [w EXCEPT ![r.xsock].owed = Append(@, r.msg)] ELSE w

\* send_message(COMMANDS[m]) starts
WireCall(t, m) ==
  /\ task[t].pc \in {"idle", "done"}
  /\ callsLeft[t] > 0
  /\ callsLeft' = [callsLeft EXCEPT ![t] = @ - 1]
  /\ task' = [task EXCEPT ![t] =
       Body(t, [TaskInit EXCEPT !.op = "send_message", !.attempt = 1, !.msg = m])]
  /\ wire' = Sent(wire, task'[t])
  /\ UNCHANGED <<shared, clock, sock, idle, dev, sp, rt>>

\* the retry decorator runs the body again
WireRetry(t) ==
  /\ task[t].pc = "retry_wait"
  /\ task' = [task EXCEPT ![t] = Body(t, [@ EXCEPT !.attempt = @ + 1])]
  /\ wire' = Sent(wire, task'[t])
  /\ UNCHANGED <<shared, clock, sock, idle, callsLeft, dev, sp, rt>>

\* the connect attempt succeeds and the exchange starts on the new socket
WireConnect(t) ==
  /\ task[t].pc = "connecting"
  /\ \E s \in SockIds :
       /\ sock[s] = "none"
       /\ \A u \in SockIds : u < s => sock[u] # "none"
       /\ sock' = [sock EXCEPT ![s] = "open"]
       /\ _reader' = s
       /\ _writer' = s
       /\ _is_online' = TRUE
       /\ _last_time_stamp' = now
       /\ task' = [task EXCEPT ![t] =
            AfterOpen([@ EXCEPT !.ocOut = "ok", !.conn = "ok"],
                      s, s, sock', Busy(t, s), TRUE)]
  /\ wire' = Sent(wire, task'[t])
  /\ UNCHANGED <<clock, idle, callsLeft, dev, sp, rt>>

\* the device answers the oldest command it has not answered: the bytes
\* arrive in the reader's buffer, whether or not a read() waits for them
DeviceAnswers(s) ==
  /\ sock[s] = "open"
  /\ wire[s].owed # <<>>
  /\ wire' = [wire EXCEPT
       ![s].owed = Tail(@),
       ![s].rx = @ \o ReplyFrame(DeviceReply(Head(wire[s].owed)))]
  /\ UNCHANGED <<shared, clock, sock, idle, task, callsLeft, dev, sp, rt>>

\* read(100) returns all the bytes the buffer holds
WireRead(t) ==
  /\ task[t].pc = "reading"
  /\ sock[task[t].xsock] = "open"
  /\ wire[task[t].xsock].rx # <<>>
  /\ _last_time_stamp' = now
  /\ task' = [task EXCEPT ![t] = Return(@, wire[task[t].xsock].rx, _is_online)]
  /\ wire' = [wire EXCEPT ![task[t].xsock].rx = <<>>]
  /\ UNCHANGED <<_reader, _writer, _is_online, clock, sock, idle, callsLeft,
                 dev, sp, rt>>

\* --------------------------------------------------------------- idle task
\* One tick up to its suspension.  _disconnect calls close() and awaits
\* wait_closed(): on a live transport that waits for connection_lost; on a
\* transport lost with an error wait_closed() raises that error, which ends
\* the task (nothing awaits it); on one already closed it returns at once.
IdleTick ==
  /\ idle_pc = "check"
  /\ IF is_connected /\ time_is_up
     THEN CASE sock[_writer] \in {"open", "eof"} ->
                 /\ sock' = [sock EXCEPT ![_writer] = "closing"]
                 /\ idle_pc' = "closing"
                 /\ idle_sock' = _writer
                 /\ UNCHANGED <<_reader, _writer>>
            [] sock[_writer] = "closing" ->
                 /\ idle_pc' = "closing"
                 /\ idle_sock' = _writer
                 /\ UNCHANGED <<sock, _reader, _writer>>
            [] sock[_writer] = "closed" ->
                 /\ _reader' = None
                 /\ _writer' = None
                 /\ idle_pc' = "sleep"
                 /\ UNCHANGED <<sock, idle_sock>>
            [] OTHER ->
                 /\ idle_pc' = "dead"
                 /\ UNCHANGED <<sock, idle_sock, _reader, _writer>>
     ELSE /\ idle_pc' = "sleep"
          /\ UNCHANGED <<sock, idle_sock, _reader, _writer>>
  /\ UNCHANGED <<_last_time_stamp, _is_online, clock, task, callsLeft, speaker>>

\* wait_closed() has returned: the handles are cleared, then sleep(1)
IdleClosed ==
  /\ idle_pc = "closing"
  /\ sock[idle_sock] = "closed"
  /\ _reader' = None
  /\ _writer' = None
  /\ idle_pc' = "sleep"
  /\ idle_sock' = None
  /\ UNCHANGED <<_last_time_stamp, _is_online, clock, sock, task, callsLeft, speaker>>

IdleWake ==
  /\ idle_pc = "sleep"
  /\ idle_pc' = "check"
  /\ UNCHANGED <<shared, clock, sock, idle_sock, task, callsLeft, speaker>>

\* ------------------------------------------------- event loop, peer, clock
\* the loop delivers connection_lost for a transport closed locally
ConnLost(s) ==
  /\ sock[s] = "closing"
  /\ sock' = [sock EXCEPT ![s] = "closed"]
  /\ UNCHANGED <<shared, clock, idle, task, callsLeft, speaker>>

\* the peer closes its side (end of stream) / resets the connection
PeerClose(s) ==
  /\ sock[s] = "open"
  /\ sock' = [sock EXCEPT ![s] = "eof"]
  /\ UNCHANGED <<shared, clock, idle, task, callsLeft, speaker>>

PeerReset(s) ==
  /\ sock[s] \in {"open", "eof"}
  /\ sock' = [sock EXCEPT ![s] = "reset"]
  /\ UNCHANGED <<shared, clock, idle, task, callsLeft, speaker>>

Tick(d) ==
  /\ ticks < MaxTicks
  /\ ticks' = ticks + 1
  /\ now' = now + d
  /\ UNCHANGED <<shared, sock, idle, task, callsLeft, speaker>>

\* the clock advances while no coroutine is inside a wait_for that would have
\* timed out in the meantime
TimedTick(d) ==
  /\ d > _TIMEOUT => \A t \in Tasks : task[t].pc \notin {"connecting", "reading"}
  /\ Tick(d)

\* ------------------------------------------------------------ speaker layer
SourceNames == {"Wifi", "Bluetooth", "Aux", "Opt", "Usb"}
States == {"on", "off"}
Byte == 0..255

INPUT_SOURCES ==
  [n \in SourceNames |->
     CASE n = "Wifi" -> 18
       [] n = "Bluetooth" -> 25
       [] n = "Aux" -> 26
       [] n = "Opt" -> 27
       [] n = "Usb" -> 28]

\* the keys of INPUT_SOURCES_RESPONSE: the codes above, and 31
ResponseCodes == {INPUT_SOURCES[n] : n \in SourceNames} \cup {31}

INPUT_SOURCES_RESPONSE(c) ==
  IF c = 31 THEN "Bluetooth" ELSE CHOOSE n \in SourceNames : INPUT_SOURCES[n] = c

\* the device's source byte when a set_source call starts: no source, Wifi on,
\* Opt on, Bluetooth (31) off
SeedSources == {0, 18, 27, 159}
\* volumes handed to _set_volume: 0, 100, and 100 muted
SampleVolumes == {0, 100, 228}
\* bytes other than _RESPONSE_OK a device answers a write with
NakBytes == {0, 255}
\* floats are counted in thousandths: 1.0 is Unit
Unit == 1000
\* targets handed to set_volume: -1.0, 0.0, 0.295, 0.5, 1.0, 2.0
SampleTargets == {0 - Unit, 0, 295, 500, Unit, 2 * Unit}
\* values of the attribute maximum_volume: the default 1.0, and 0.4
SampleMaxima == {Unit, 400}
\* the attribute volume_step: the default 0.05
volume_step == 50

\* A speaker command's frame.  pc: "idle", "write" (await send_message of the
\* set command), "read" (await send_message of get_source), "retry_read" /
\* "retry_write" (the retry decorator's sleep in get_source_and_state / in
\* set_source or _set_volume), "poll_sleep" (sleep(0.5) in set_source's loop),
\* "done".  outer, inner: the attempt of the written command / of
\* get_source_and_state; poll: the turn of set_source's loop; code: the byte
\* written; writes: set commands handed to send_message in the call; wreply,
\* rreply: what the latest write / read exchange returned; matched: the loop
\* saw the requested source; acked, nak, stale, ioFail: in this call the
\* device answered a write with _RESPONSE_OK / with another byte / with
\* _RESPONSE_OK without applying it / a send_message failed; pollFail: in this
\* call a get_source of set_source's loop raised.
\* For the volume commands: pc "vread" (await send_message of get_volume) and
\* "retry_vread" (the retry decorator's sleep in get_volume_and_is_muted);
\* stage: the statement of the command that runs; scale, value,
\* maximum_volume, step: the arguments and attributes it uses; vraw: the byte
\* the latest volume read returned, vfirst: the first one of the call;
\* got_volume, got_unit, got_muted: the volume a read command returned
\* (got_unit "raw": the byte, "scaled": the float, "none": None) and the mute
\* flag; clamped: set_volume's local volume; ret: what set_volume returned.
\* A float f is represented by the integer f * Unit.
\* For turn_on and turn_off: stage "check" (the first get_source_and_state),
\* "set_source" (await set_source), "confirm" (the loop over is_on); pc
\* "confirm_sleep" (sleep(1) in that loop); tpoll: the turn of that loop; arg:
\* the argument source of turn_on ("none": None).
\* sync: the command was called through speaker.sync.  before: the device's
\* volume byte when set_volume was called.  other: the byte a set_volume of
\* another coroutine wrote while the command was suspended.
SpInit ==
  [op |-> "none", pc |-> "idle", source |-> "none", state |-> "none",
   code |-> Unbound, outer |-> 0, inner |-> 0, poll |-> 0, writes |-> 0,
   wreply |-> Unbound, rreply |-> Unbound, result |-> "none", raised |-> "none",
   got_source |-> "none", got_is_on |-> FALSE, matched |-> FALSE,
   acked |-> FALSE, nak |-> FALSE, stale |-> FALSE, ioFail |-> FALSE,
   pollFail |-> FALSE, tpoll |-> 0, sync |-> FALSE, before |-> Unbound,
   other |-> Unbound, arg |-> "none",
   stage |-> "none", scale |-> FALSE, value |-> 0, maximum_volume |-> 0,
   step |-> 0, vraw |-> Unbound, vfirst |-> Unbound, got_volume |-> Unbound,
   got_unit |-> "none", got_muted |-> FALSE, clamped |-> Unbound,
   ret |-> Unbound]

DevInit == [source |-> 0, volume |-> 0]

\* mutant: "off" does not change the code
SourceCodeOffIgnored(source, state) == INPUT_SOURCES[source] % 128

\* set_source: the byte written for a source and a state
SourceCode(source, state) ==
  LET i == INPUT_SOURCES[source] % 128
  IN  IF state = "off" THEN i + 128 ELSE i

\* mutant: the source looked up by the whole byte
SourceAndStateNoMod(response) ==
  [is_on |-> response <= 128,
   source |-> IF response \in ResponseCodes
              THEN INPUT_SOURCES_RESPONSE(response) ELSE "none"]

\* get_source_and_state: what a reply byte decodes to ("none": .get() gave None)
SourceAndState(response) ==
  [is_on |-> response <= 128,
   source |-> IF response % 128 \in ResponseCodes
              THEN INPUT_SOURCES_RESPONSE(response % 128) ELSE "none"]

\* mutant: any reply to a write is taken for success
WriteAcceptedAny(response) == response \in Byte

\* set_source, _set_volume: "if response != _RESPONSE_OK: raise"
WriteAccepted(response) == response = _RESPONSE_OK

\* mutant: the mute bit tested with >
VolumeAndIsMutedGt(volume, scale) ==
  [volume |-> IF scale THEN (volume * Unit) \div _VOLUME_SCALE ELSE volume,
   unit |-> IF scale THEN "scaled" ELSE "raw",
   muted |-> volume > 128]

\* get_volume_and_is_muted: what the byte of the reply is returned as
VolumeAndIsMuted(volume, scale) ==
  [volume |-> IF scale THEN (volume * Unit) \div _VOLUME_SCALE ELSE volume,
   unit |-> IF scale THEN "scaled" ELSE "raw",
   muted |-> volume >= 128]

\* mutant: "return volume or None"
VolumeOrNoneFalsy(volume, is_muted) ==
  IF is_muted \/ volume = 0
  THEN [volume |-> Unbound, unit |-> "none"]
  ELSE [volume |-> volume, unit |-> "scaled"]

\* get_volume: "return volume if not is_muted else None"
VolumeOrNone(volume, is_muted) ==
  IF is_muted
  THEN [volume |-> Unbound, unit |-> "none"]
  ELSE [volume |-> volume, unit |-> "scaled"]

\* mutant: no lower limit
ClampedNoFloor(maximum_volume, value) == Min(maximum_volume, value)

\* mutant: set_volume without the upper clamp
ClampedNoCeiling(maximum_volume, value) == Max(0, value)

\* set_volume: max(0.0, min(self.maximum_volume, value))
Clamped(maximum_volume, value) == Max(0, Min(maximum_volume, value))

\* set_volume: int(volume * _VOLUME_SCALE), for volume >= 0 (the product is
\* taken exactly; int() truncates)
IntScaled(volume) == (volume * _VOLUME_SCALE) \div Unit

\* mutant: the mute bit added to the whole byte
MuteCodeNoMod(volume) == (volume + 128) % 256

\* mute / unmute: the byte written for the byte read
MuteCode(volume) == (volume % 128) + 128
UnmuteCode(volume) == volume % 128

\* the command writes the device's source (else its volume)
WritesSource(r) == r.op \in {"set_source", "turn_on", "turn_off"}

\* the first attempt of _set_volume(code) starts
StartVolumeWrite(r, code) ==
  [r EXCEPT !.pc = "write", !.code = code, !.outer = 1, !.writes = @ + 1,
            !.wreply = Unbound]

\* set_volume(value) up to its first suspension
StartSetVolume(r, value) ==
  LET volume == Clamped(r.maximum_volume, value)
  IN  StartVolumeWrite([r EXCEPT !.stage = "set_volume", !.clamped = volume],
                       IntScaled(volume))

\* _change_volume after the reads (and the unmute): the assertion, then
\* set_volume(volume + step)
AssertAndSet(r) ==
  IF r.got_unit = "none"
  THEN [r EXCEPT !.pc = "done", !.result = "error", !.raised = "AssertionError"]
  ELSE StartSetVolume(r, r.got_volume + r.step)

\* an exception leaves an attempt of get_volume_and_is_muted; after the last
\* attempt it leaves the command
VolumeReadRaised(r) ==
  IF r.inner >= _MAX_ATTEMPT_TILL_SUCCESS
  THEN [r EXCEPT !.pc = "done", !.result = "error", !.raised = "RetryError"]
  ELSE [r EXCEPT !.pc = "retry_vread"]

\* get_volume_and_is_muted has returned for the byte volume: to its caller,
\* or to the command that called it
GotVolume(r, volume) ==
  LET raw == VolumeAndIsMuted(volume, FALSE)
      scaled == VolumeAndIsMuted(volume, TRUE)
  IN  CASE r.op = "get_volume_and_is_muted" ->
             LET g == VolumeAndIsMuted(volume, r.scale)
             IN  [r EXCEPT !.pc = "done", !.result = "ok", !.got_volume = g.volume,
                           !.got_unit = g.unit, !.got_muted = g.muted]
        [] r.op = "is_muted" ->
             [r EXCEPT !.pc = "done", !.result = "ok", !.got_muted = raw.muted]
        [] r.op = "get_volume" ->
             LET g == VolumeOrNone(scaled.volume, scaled.muted)
             IN  [r EXCEPT !.pc = "done", !.result = "ok", !.got_volume = g.volume,
                           !.got_unit = g.unit]
        [] r.op = "mute" -> StartVolumeWrite(r, MuteCode(raw.volume))
        [] r.op = "unmute" -> StartVolumeWrite(r, UnmuteCode(raw.volume))
        [] r.op = "_change_volume" /\ r.stage = "get_volume" ->
             LET g == VolumeOrNone(scaled.volume, scaled.muted)
             IN  [r EXCEPT !.pc = "vread", !.stage = "is_muted", !.inner = 1,
                           !.vfirst = volume, !.got_volume = g.volume,
                           !.got_unit = g.unit]
        [] r.op = "_change_volume" /\ r.stage = "is_muted" ->
             IF raw.muted
             THEN [r EXCEPT !.pc = "vread", !.stage = "unmute", !.inner = 1,
                            !.got_muted = TRUE]
             ELSE AssertAndSet([r EXCEPT !.got_muted = FALSE])
        [] OTHER -> StartVolumeWrite(r, UnmuteCode(raw.volume))

PowerOps == {"turn_on", "turn_off"}

\* the state turn_on / turn_off asks set_source for
TargetState(op) == IF op = "turn_on" THEN "on" ELSE "off"

\* mutant: turn_off tests is_on as turn_on does
InTargetStateOnOnly(op, is_on) == is_on

\* turn_on: "if is_on", "if await self.is_on()"; turn_off: "if not is_on",
\* "if not await self.is_on()"
InTargetState(op, is_on) == IF op = "turn_on" THEN is_on ELSE ~is_on

\* mutant: turn_on selects its argument unless it is None
PowerSourceArg(arg, source) == IF arg = "none" THEN source ELSE arg

\* turn_on: "source, is_on = await self.get_source_and_state()" assigns the
\* source read to the parameter; that is what set_source is called with
PowerSource(arg, source) == source

\* get_source_and_state was called by the command itself, not by the loop of
\* set_source
ReadsForItself(r) ==
  \/ r.op = "get_source_and_state"
  \/ r.op \in PowerOps /\ r.stage \in {"check", "confirm"}

\* set_source has returned: to its caller, or to turn_on / turn_off, which
\* enters its loop and calls is_on
SetSourceReturned(r) ==
  IF r.op \in PowerOps
  THEN [r EXCEPT !.stage = "confirm", !.pc = "read", !.tpoll = 1, !.inner = 1,
                 !.rreply = Unbound]
  ELSE [r EXCEPT !.pc = "done", !.result = "ok"]

\* mutant: turn_on / turn_off raise when their loop ends unconfirmed
ConfirmSleepOverRaises(r) ==
  IF r.tpoll < _MAX_ATTEMPT_TILL_SUCCESS
  THEN [r EXCEPT !.pc = "read", !.tpoll = @ + 1, !.inner = 1, !.rreply = Unbound]
  ELSE [r EXCEPT !.pc = "done", !.result = "error", !.raised = "ConnectionError"]

\* sleep(1) is over: the next turn of "for _ in range(5)", or the end of the
\* loop, after which turn_on / turn_off returns
ConfirmSleepOver(r) ==
  IF r.tpoll < _MAX_ATTEMPT_TILL_SUCCESS
  THEN [r EXCEPT !.pc = "read", !.tpoll = @ + 1, !.inner = 1, !.rreply = Unbound]
  ELSE [r EXCEPT !.pc = "done", !.result = "ok"]

\* an exception leaves an attempt of set_source / _set_volume: the retry
\* decorator sleeps and runs it again, or gives up after the last attempt
OuterRaised(r) ==
  IF r.outer >= _MAX_ATTEMPT_TILL_SUCCESS
  THEN [r EXCEPT !.pc = "done", !.result = "error", !.raised = "RetryError"]
  ELSE [r EXCEPT !.pc = "retry_write"]

\* mutant: set_source's loop catches the failure of its get_source and goes
\* on polling
InnerRaisedCaught(r) ==
  IF r.inner >= _MAX_ATTEMPT_TILL_SUCCESS
  THEN IF ReadsForItself(r)
       THEN [r EXCEPT !.pc = "done", !.result = "error", !.raised = "RetryError"]
       ELSE [r EXCEPT !.pc = "poll_sleep", !.pollFail = TRUE]
  ELSE [r EXCEPT !.pc = "retry_read"]

\* an exception leaves an attempt of get_source_and_state; after the last
\* attempt it leaves get_source_and_state, and with it turn_on / turn_off or
\* the attempt of the set_source that polls
InnerRaised(r) ==
  IF r.inner >= _MAX_ATTEMPT_TILL_SUCCESS
  THEN IF ReadsForItself(r)
       THEN [r EXCEPT !.pc = "done", !.result = "error", !.raised = "RetryError"]
       ELSE OuterRaised([r EXCEPT !.pollFail = TRUE])
  ELSE [r EXCEPT !.pc = "retry_read"]

\* get_source_and_state has returned (source, is_on): to its caller, to
\* turn_on / turn_off (which return in the target state, and else call
\* set_source with the source read, or sleep in their loop), or to
\* set_source's loop, which returns when it is the requested source
GotSource(r, source, is_on) ==
  LET g == [r EXCEPT !.got_source = source, !.got_is_on = is_on]
  IN  CASE r.op = "get_source_and_state" ->
             [g EXCEPT !.pc = "done", !.result = "ok"]
        [] r.op \in PowerOps /\ r.stage = "check" ->
             IF InTargetState(r.op, is_on)
             THEN [g EXCEPT !.pc = "done", !.result = "ok"]
             ELSE [g EXCEPT !.stage = "set_source", !.pc = "write",
                            !.source = PowerSource(r.arg, source),
                            !.state = TargetState(r.op),
                            !.code = SourceCode(PowerSource(r.arg, source),
                                                TargetState(r.op)),
                            !.outer = 1, !.writes = @ + 1, !.inner = 0]
        [] r.op \in PowerOps /\ r.stage = "confirm" ->
             IF InTargetState(r.op, is_on)
             THEN [g EXCEPT !.pc = "done", !.result = "ok"]
             ELSE [g EXCEPT !.pc = "confirm_sleep"]
        [] OTHER ->
             IF source = r.source
             THEN SetSourceReturned([g EXCEPT !.matched = TRUE])
             ELSE [g EXCEPT !.pc = "poll_sleep"]

\* the reply to the write was _RESPONSE_OK: _set_volume returns, set_source
\* enters its loop and calls get_source
AfterWrite(r) ==
  CASE WritesSource(r) ->
         [r EXCEPT !.pc = "read", !.poll = 1, !.inner = 1, !.rreply = Unbound]
    [] r.op = "_change_volume" /\ r.stage = "unmute" -> AssertAndSet(r)
    [] r.stage = "set_volume" ->
         [r EXCEPT !.pc = "done", !.result = "ok", !.ret = r.clamped]
    [] OTHER -> [r EXCEPT !.pc = "done", !.result = "ok"]

\* the write exchange returned response
Written(r, response) ==
  IF WriteAccepted(response)
  THEN AfterWrite([r EXCEPT !.wreply = response])
  ELSE OuterRaised([r EXCEPT !.wreply = response])

GetSourceAndState ==
  /\ sp.pc = "idle"
  /\ sp' = [SpInit EXCEPT !.op = "get_source_and_state", !.pc = "read", !.inner = 1]
  /\ UNCHANGED <<comm, dev>>

SetSource(source, state) ==
  /\ sp.pc = "idle"
  /\ dev.source \in SeedSources
  /\ sp' = [SpInit EXCEPT !.op = "set_source", !.pc = "write", !.source = source,
                          !.state = state, !.code = SourceCode(source, state),
                          !.outer = 1, !.writes = 1]
  /\ UNCHANGED <<comm, dev>>

SetVolume(volume) ==
  /\ sp.pc = "idle"
  /\ dev.source \in SeedSources
  /\ sp' = [SpInit EXCEPT !.op = "_set_volume", !.pc = "write", !.code = volume,
                          !.outer = 1, !.writes = 1]
  /\ UNCHANGED <<comm, dev>>

\* the device applies the written byte and answers _RESPONSE_OK
DevApply ==
  /\ sp.pc = "write"
  /\ dev' = IF WritesSource(sp)
            THEN [dev EXCEPT !.source = sp.code]
            ELSE [dev EXCEPT !.volume = sp.code]
  /\ sp' = Written([sp EXCEPT !.acked = TRUE], _RESPONSE_OK)
  /\ UNCHANGED comm

\* the device answers _RESPONSE_OK and keeps its state
DevAck ==
  /\ sp.pc = "write"
  /\ sp' = Written([sp EXCEPT !.acked = TRUE, !.stale = TRUE], _RESPONSE_OK)
  /\ UNCHANGED <<comm, dev>>

\* the device answers another byte and keeps its state
DevNak(b) ==
  /\ sp.pc = "write"
  /\ sp' = Written([sp EXCEPT !.nak = TRUE], b)
  /\ UNCHANGED <<comm, dev>>

\* the device answers get_source with its source byte
ReadReply ==
  /\ sp.pc = "read"
  /\ LET d == SourceAndState(dev.source)
         r == [sp EXCEPT !.rreply = dev.source]
     IN  sp' = IF d.source = "none"
               THEN InnerRaised(r)
               ELSE GotSource(r, d.source, d.is_on)
  /\ UNCHANGED <<comm, dev>>

\* send_message fails after its attempts
SendFail ==
  /\ sp.pc \in {"write", "read", "vread"}
  /\ sp' = CASE sp.pc = "write" -> OuterRaised([sp EXCEPT !.ioFail = TRUE])
             [] sp.pc = "read" ->
                  InnerRaised([sp EXCEPT !.ioFail = TRUE, !.rreply = Unbound])
             [] OTHER ->
                  VolumeReadRaised([sp EXCEPT !.ioFail = TRUE, !.vraw = Unbound])
  /\ UNCHANGED <<comm, dev>>

\* a volume command starts: commands run one after the other
NewCommand(op) == [SpInit EXCEPT !.op = op]

CanStart == sp.pc \in {"idle", "done"}

get_volume_and_is_muted(scale) ==
  /\ CanStart
  /\ sp' = [NewCommand("get_volume_and_is_muted") EXCEPT
              !.pc = "vread", !.inner = 1, !.scale = scale]
  /\ UNCHANGED <<comm, dev>>

get_volume ==
  /\ CanStart
  /\ sp' = [NewCommand("get_volume") EXCEPT !.pc = "vread", !.inner = 1]
  /\ UNCHANGED <<comm, dev>>

is_muted ==
  /\ CanStart
  /\ sp' = [NewCommand("is_muted") EXCEPT !.pc = "vread", !.inner = 1]
  /\ UNCHANGED <<comm, dev>>

set_volume(value, maximum_volume) ==
  /\ CanStart
  /\ sp' = StartSetVolume([NewCommand("set_volume") EXCEPT
                             !.value = value, !.maximum_volume = maximum_volume,
                             !.before = dev.volume],
                          value)
  /\ UNCHANGED <<comm, dev>>

\* increase_volume (step = volume_step) and decrease_volume (-volume_step)
_change_volume(step, maximum_volume) ==
  /\ CanStart
  /\ sp' = [NewCommand("_change_volume") EXCEPT
              !.pc = "vread", !.inner = 1, !.stage = "get_volume",
              !.step = step, !.maximum_volume = maximum_volume]
  /\ UNCHANGED <<comm, dev>>

mute ==
  /\ CanStart
  /\ sp' = [NewCommand("mute") EXCEPT !.pc = "vread", !.inner = 1]
  /\ UNCHANGED <<comm, dev>>

unmute ==
  /\ CanStart
  /\ sp' = [NewCommand("unmute") EXCEPT !.pc = "vread", !.inner = 1]
  /\ UNCHANGED <<comm, dev>>

\* the device answers get_volume with its volume byte
VolumeReply ==
  /\ sp.pc = "vread"
  /\ sp' = GotVolume([sp EXCEPT !.vraw = dev.volume], dev.volume)
  /\ UNCHANGED <<comm, dev>>

\* the attributes __init__ gives an AsyncKefSpeaker
SpeakerAttributes ==
  {"host", "port", "volume_step", "maximum_volume", "_comm", "sync"}

\* coroutine methods without arguments that start with a volume read
SyncMethods == {"get_volume", "is_muted", "mute", "unmute"}

\* speaker.sync.m(): SyncKefSpeaker.__getattr__ returns wrapped, and wrapped
\* evaluates self.ioloop before it calls m.  SyncKefSpeaker has no attribute
\* ioloop, so __getattr__ looks it up on the AsyncKefSpeaker and the lookup
\* raises AttributeError when that has none; else run_until_complete runs m.
SyncCall(m) ==
  /\ CanStart
  /\ sp' = IF "ioloop" \in SpeakerAttributes
           THEN [NewCommand(m) EXCEPT !.sync = TRUE, !.pc = "vread", !.inner = 1]
           ELSE [NewCommand(m) EXCEPT !.sync = TRUE, !.pc = "done",
                                    !.result = "error",
                                    !.raised = "AttributeError"]
  /\ UNCHANGED <<comm, dev>>

\* while the command sleeps in a retry, another coroutine calls set_volume on
\* the same speaker, once: the device applies its byte and answers
\* _RESPONSE_OK
OtherSetVolume(value, maximum_volume) ==
  /\ sp.pc \in {"retry_vread", "retry_write"}
  /\ sp.other = Unbound
  /\ LET code == IntScaled(Clamped(maximum_volume, value))
     IN  /\ dev' = [dev EXCEPT !.volume = code]
         /\ sp' = [sp EXCEPT !.other = code]
  /\ UNCHANGED comm

RetryVolumeReadWake ==
  /\ sp.pc = "retry_vread"
  /\ sp' = [sp EXCEPT !.pc = "vread", !.inner = @ + 1, !.vraw = Unbound]
  /\ UNCHANGED <<comm, dev>>

RetryReadWake ==
  /\ sp.pc = "retry_read"
  /\ sp' = [sp EXCEPT !.pc = "read", !.inner = @ + 1, !.rreply = Unbound]
  /\ UNCHANGED <<comm, dev>>

RetryWriteWake ==
  /\ sp.pc = "retry_write"
  /\ sp' = [sp EXCEPT !.pc = "write", !.outer = @ + 1, !.writes = @ + 1,
                      !.wreply = Unbound, !.rreply = Unbound, !.poll = 0,
                      !.inner = 0]
  /\ UNCHANGED <<comm, dev>>

\* sleep(0.5) is over: the next turn of "for _ in range(5)", or the end of the
\* loop, after which set_source returns
PollSleepDone ==
  /\ sp.pc = "poll_sleep"
  /\ sp' = IF sp.poll < _MAX_ATTEMPT_TILL_SUCCESS
           THEN [sp EXCEPT !.pc = "read", !.poll = @ + 1, !.inner = 1,
                           !.rreply = Unbound]
           ELSE SetSourceReturned(sp)
  /\ UNCHANGED <<comm, dev>>

\* turn_on(source): the argument is overwritten by the source read
turn_on(source) ==
  /\ sp.pc = "idle"
  /\ sp' = [NewCommand("turn_on") EXCEPT !.pc = "read", !.stage = "check",
                                         !.inner = 1, !.arg = source]
  /\ UNCHANGED <<comm, dev>>

turn_off ==
  /\ sp.pc = "idle"
  /\ sp' = [NewCommand("turn_off") EXCEPT !.pc = "read", !.stage = "check",
                                          !.inner = 1]
  /\ UNCHANGED <<comm, dev>>

ConfirmSleepDone ==
  /\ sp.pc = "confirm_sleep"
  /\ sp' = ConfirmSleepOver(sp)
  /\ UNCHANGED <<comm, dev>>

\* a device that answered _RESPONSE_OK at once applies the byte later
DevLate ==
  /\ WritesSource(sp)
  /\ sp.stale
  /\ sp.pc \in {"read", "retry_read", "poll_sleep", "confirm_sleep"}
  /\ dev.source # sp.code
  /\ dev' = [dev EXCEPT !.source = sp.code]
  /\ UNCHANGED <<comm, sp>>

\* ------------------------------------- the synchronous API's retry decorator
\* kef_api.retry(ExceptionToCheck, tries, delay, backoff) wraps a function f.
\* rt is the frame of one call of the wrapper f_retry.  pc: "idle", "call"
\* (f runs), "sleep" (time.sleep(mdelay)), "done".  exc is ExceptionToCheck,
\* calls the calls of f so far, last what the latest call of f did ("return"
\* or the exception it raised), fval what it returned; result, raised and ret
\* are what the wrapper hands to its caller.
RtInit ==
  [pc |-> "idle", exc |-> "none", tries |-> 0, mtries |-> 0, mdelay |-> 0,
   calls |-> 0, last |-> "none", fval |-> Unbound,
   result |-> "none", raised |-> "none", ret |-> Unbound]

\* delay=0.1 seconds, in milliseconds; mdelay is multiplied by backoff
delay == 100
backoff == 2

\* the exceptions the decorated functions raise, and an assert's
Exceptions ==
  {"ConnectionError", "ConnectionRefusedError", "OSError", "AssertionError"}

\* the class an exception class derives from
Base(e) ==
  CASE e = "ConnectionRefusedError" -> "ConnectionError"
    [] e = "ConnectionError" -> "OSError"
    [] OTHER -> "Exception"

\* except ExceptionToCheck: the clause catches the class and its subclasses
Catches(ExceptionToCheck, e) ==
  \/ e = ExceptionToCheck
  \/ Base(e) = ExceptionToCheck
  \/ Base(Base(e)) = ExceptionToCheck

\* the loop with one turn too many
InLoopZero(mtries) == mtries > 0

\* while mtries > 1: the call runs inside the try statement
InLoop(mtries) == mtries > 1

\* what the wrapper does with the outcome of the call of f that just ended:
\* a value is returned; an exception the clause catches inside the loop leads
\* to the sleep; every other exception leaves the wrapper
AfterCall(r) ==
  IF r.last = "return"
    THEN [r EXCEPT !.pc = "done", !.result = "ok", !.ret = r.fval]
  ELSE IF InLoop(r.mtries) /\ Catches(r.exc, r.last)
    THEN [r EXCEPT !.pc = "sleep"]
  ELSE [r EXCEPT !.pc = "done", !.result = "error", !.raised = r.last]

\* everything but rt
notRt == <<_reader, _writer, _last_time_stamp, _is_online, now, ticks, sock,
           idle_pc, idle_sock, task, callsLeft, dev, sp, wire>>

\* f_retry(*args) starts: mtries, mdelay = tries, delay, and f is called,
\* in the loop or after it
f_retry(ExceptionToCheck, tries) ==
  /\ rt.pc \in {"idle", "done"}
  /\ rt' = [RtInit EXCEPT !.pc = "call", !.exc = ExceptionToCheck,
                          !.tries = tries, !.mtries = tries,
                          !.mdelay = delay, !.calls = 1]
  /\ UNCHANGED notRt

\* the call of f returns value
FReturns(value) ==
  /\ rt.pc = "call"
  /\ rt' = AfterCall([rt EXCEPT !.last = "return", !.fval = value])
  /\ UNCHANGED notRt

\* the call of f raises e
FRaises(e) ==
  /\ rt.pc = "call"
  /\ rt' = AfterCall([rt EXCEPT !.last = e])
  /\ UNCHANGED notRt

\* time.sleep(mdelay) is over: mtries -= 1, mdelay *= backoff, and the next
\* call of f, in the loop or after it
FSleepDone ==
  /\ rt.pc = "sleep"
  /\ rt' = [rt EXCEPT !.mtries = @ - 1, !.mdelay = @ * backoff,
                      !.pc = "call", !.calls = @ + 1]
  /\ UNCHANGED notRt

\* ---------------------------------------------------------- specifications
InitCommon ==
  /\ _reader = None
  /\ _writer = None
  /\ _last_time_stamp = 0
  /\ _is_online = FALSE
  /\ now = StartTime
  /\ ticks = 0
  /\ sock = [s \in SockIds |-> "none"]
  /\ idle_pc = "check"
  /\ idle_sock = None
  /\ task = [t \in Tasks |-> TaskInit]
  /\ wire = WireInit
  /\ rt = RtInit

\* the communicator on its own: no speaker command runs
InitComm ==
  /\ InitCommon
  /\ dev = DevInit
  /\ sp = SpInit

\* one caller
Init ==
  /\ InitComm
  /\ callsLeft = [t \in Tasks |-> IF t = "t1" THEN MaxCalls ELSE 0]

Next ==
  \/ \E t \in Tasks, o \in Ops : StartCall(t, o)
  \/ \E t \in Tasks : RetryWake(t)
  \/ \E t \in Tasks : ConnectOK(t)
  \/ \E t \in Tasks : ConnectRefused(t)
  \/ \E t \in Tasks : ConnectBlocking(t)
  \/ \E t \in Tasks : ConnectTerminal(t)
  \/ \E t \in Tasks : OCSleepDone(t)
  \/ \E t \in Tasks : DrainLost(t)
  \/ \E t \in Tasks : ReplyOK(t, OkReply)
  \/ \E t \in Tasks : ReplyShort(t, CutReply)
  \/ \E t \in Tasks : ReplyTimeout(t)
  \/ \E t \in Tasks : ReadEOF(t)
  \/ \E t \in Tasks : ReadReset(t)
  \/ IdleTick
  \/ IdleClosed
  \/ IdleWake
  \/ \E s \in SockIds : ConnLost(s)
  \/ \E s \in SockIds : PeerClose(s)
  \/ \E s \in SockIds : PeerReset(s)
  \/ \E d \in Durations : Tick(d)

Spec == Init /\ [][Next]_vars

\* one caller against an endpoint that accepts and answers or stays silent,
\* with waits no longer than _TIMEOUT
NextTimed ==
  \/ \E t \in Tasks, o \in Ops : StartCall(t, o)
  \/ \E t \in Tasks : RetryWake(t)
  \/ \E t \in Tasks : ConnectOK(t)
  \/ \E t \in Tasks : DrainLost(t)
  \/ \E t \in Tasks : ReplyOK(t, OkReply)
  \/ \E t \in Tasks : ReplyTimeout(t)
  \/ \E t \in Tasks : ReadEOF(t)
  \/ IdleTick
  \/ IdleClosed
  \/ IdleWake
  \/ \E s \in SockIds : ConnLost(s)
  \/ \E d \in Durations : TimedTick(d)

TimedSpec == Init /\ [][NextTimed]_vars

\* two callers, one call each, against an endpoint that is up or down
InitConc ==
  /\ InitComm
  /\ callsLeft = [t \in Tasks |-> 1]

NextConc ==
  \/ \E t \in Tasks, o \in Ops : StartCall(t, o)
  \/ \E t \in Tasks : RetryWake(t)
  \/ \E t \in Tasks : ConnectOK(t)
  \/ \E t \in Tasks : ConnectTerminal(t)
  \/ \E t \in Tasks : DrainLost(t)
  \/ \E t \in Tasks : ReplyOK(t, OkReply)
  \/ \E t \in Tasks : ReplyTimeout(t)
  \/ \E t \in Tasks : ReadEOF(t)
  \/ \E t \in Tasks : ReadBusy(t)
  \/ IdleTick
  \/ IdleClosed
  \/ IdleWake
  \/ \E s \in SockIds : ConnLost(s)
  \/ \E d \in Durations : Tick(d)

ConcSpec == InitConc /\ [][NextConc]_vars

\* Fair scheduling.  The event loop runs every ready coroutine and callback and
\* fires every timer: sleeps end, a connect attempt ends (by its outcome or by
\* wait_for's timeout), a read ends (by data, end of stream, an error or
\* wait_for's timeout), and close() is followed by connection_lost.  Nothing
\* obliges the caller to start a call, the peer to close, or the clock to jump.
ConnectResolve(t) ==
  ConnectOK(t) \/ ConnectRefused(t) \/ ConnectBlocking(t) \/ ConnectTerminal(t)

ReadResolve(t) ==
  \/ ReplyOK(t, OkReply)
  \/ ReplyShort(t, CutReply)
  \/ ReplyTimeout(t)
  \/ ReadEOF(t)
  \/ ReadReset(t)

Fairness ==
  /\ WF_vars(IdleTick)
  /\ WF_vars(IdleWake)
  /\ WF_vars(IdleClosed)
  /\ \A s \in SockIds : WF_vars(ConnLost(s))
  /\ \A t \in Tasks :
       /\ WF_vars(RetryWake(t))
       /\ WF_vars(OCSleepDone(t))
       /\ WF_vars(DrainLost(t))
       /\ WF_vars(ConnectResolve(t))
       /\ WF_vars(ReadResolve(t))

FairSpec == Init /\ [][Next]_vars /\ Fairness

\* one caller against an endpoint that is up or down (it refuses nothing),
\* under fair scheduling
NextIdle ==
  \/ \E t \in Tasks, o \in Ops : StartCall(t, o)
  \/ \E t \in Tasks : RetryWake(t)
  \/ \E t \in Tasks : ConnectOK(t)
  \/ \E t \in Tasks : ConnectTerminal(t)
  \/ \E t \in Tasks : DrainLost(t)
  \/ \E t \in Tasks : ReplyOK(t, OkReply)
  \/ \E t \in Tasks : ReplyShort(t, CutReply)
  \/ \E t \in Tasks : ReplyTimeout(t)
  \/ \E t \in Tasks : ReadEOF(t)
  \/ \E t \in Tasks : ReadReset(t)
  \/ IdleTick
  \/ IdleClosed
  \/ IdleWake
  \/ \E s \in SockIds : ConnLost(s)
  \/ \E s \in SockIds : PeerClose(s)
  \/ \E s \in SockIds : PeerReset(s)
  \/ \E d \in Durations : Tick(d)

IdleSpec == Init /\ [][NextIdle]_vars /\ Fairness

\* one caller against an endpoint that is up or down and answers with any
\* reply of up to MaxReplyLen bytes
NextExchange ==
  \/ \E t \in Tasks, o \in Ops : StartCall(t, o)
  \/ \E t \in Tasks : RetryWake(t)
  \/ \E t \in Tasks : ConnectOK(t)
  \/ \E t \in Tasks : ConnectTerminal(t)
  \/ \E t \in Tasks : DrainLost(t)
  \/ \E t \in Tasks, data \in LongReplies : ReplyOK(t, data)
  \/ \E t \in Tasks, data \in Replies(1) : ReplyShort(t, data)
  \/ \E t \in Tasks : ReplyTimeout(t)
  \/ \E t \in Tasks : ReadEOF(t)
  \/ \E t \in Tasks : ReadReset(t)
  \/ IdleTick
  \/ IdleClosed
  \/ IdleWake
  \/ \E s \in SockIds : ConnLost(s)
  \/ \E s \in SockIds : PeerClose(s)
  \/ \E s \in SockIds : PeerReset(s)
  \/ \E d \in Durations : Tick(d)

ExchangeSpec == Init /\ [][NextExchange]_vars

\* one speaker command against a device in any state
InitSpeaker ==
  /\ InitCommon
  /\ callsLeft = [t \in Tasks |-> 0]
  /\ dev \in [source : Byte, volume : {0}]
  /\ sp = SpInit

NextSpeaker ==
  \/ GetSourceAndState
  \/ \E source \in SourceNames, state \in States : SetSource(source, state)
  \/ \E volume \in SampleVolumes : SetVolume(volume)
  \/ DevApply
  \/ DevAck
  \/ \E b \in NakBytes : DevNak(b)
  \/ ReadReply
  \/ SendFail
  \/ RetryReadWake
  \/ RetryWriteWake
  \/ PollSleepDone

SpeakerSpec == InitSpeaker /\ [][NextSpeaker]_vars

\* one caller reads the device's source and volume over a connection that
\* stays open; the device answers at once or late
InitWire ==
  /\ InitCommon
  /\ callsLeft = [t \in Tasks |-> IF t = "t1" THEN MaxCalls ELSE 0]
  /\ dev \in [source : {18, 27}, volume : {30, 158}]
  /\ sp = SpInit

NextWire ==
  \/ \E t \in Tasks, m \in Messages : WireCall(t, m)
  \/ \E t \in Tasks : WireRetry(t)
  \/ \E t \in Tasks : WireConnect(t)
  \/ \E s \in SockIds : DeviceAnswers(s)
  \/ \E t \in Tasks : WireRead(t)
  \/ \E t \in Tasks : WireTimeout(t)

WireSpec == InitWire /\ [][NextWire]_vars

\* turn_on or turn_off against a device in any state, which applies a write
\* at once, later or never.  The device keeps its source, so the loop of
\* set_source sees the source it asked for in its first turn.
NextPower ==
  \/ \E source \in SourceNames \cup {"none"} : turn_on(source)
  \/ turn_off
  \/ DevApply
  \/ DevAck
  \/ \E b \in NakBytes : DevNak(b)
  \/ DevLate
  \/ ReadReply
  \/ SendFail
  \/ RetryReadWake
  \/ RetryWriteWake
  \/ ConfirmSleepDone

PowerSpec == InitSpeaker /\ [][NextPower]_vars

\* volume commands, one after the other, against a device with any volume
\* byte
InitVolume ==
  /\ InitCommon
  /\ callsLeft = [t \in Tasks |-> 0]
  /\ dev \in [source : {0}, volume : Byte]
  /\ sp = SpInit

NextVolume ==
  \/ \E scale \in BOOLEAN : get_volume_and_is_muted(scale)
  \/ get_volume
  \/ is_muted
  \/ \E value \in SampleTargets, m \in SampleMaxima : set_volume(value, m)
  \/ \E step \in {volume_step, 0 - volume_step}, m \in SampleMaxima :
       _change_volume(step, m)
  \/ mute
  \/ unmute
  \/ VolumeReply
  \/ RetryVolumeReadWake
  \/ DevApply
  \/ DevAck
  \/ \E b \in NakBytes : DevNak(b)
  \/ SendFail
  \/ RetryWriteWake

VolumeSpec == InitVolume /\ [][NextVolume]_vars

\* get_volume, is_muted, mute and unmute, awaited or called through
\* speaker.sync
NextSync ==
  \/ \E m \in SyncMethods : SyncCall(m)
  \/ get_volume
  \/ is_muted
  \/ mute
  \/ unmute
  \/ VolumeReply
  \/ RetryVolumeReadWake
  \/ DevApply
  \/ DevAck
  \/ \E b \in NakBytes : DevNak(b)
  \/ SendFail
  \/ RetryWriteWake

SyncSpec == InitVolume /\ [][NextSync]_vars

\* mute or unmute, with a set_volume of another coroutine running while it is
\* suspended
NextRace ==
  \/ mute
  \/ unmute
  \/ \E value \in SampleTargets, m \in SampleMaxima : OtherSetVolume(value, m)
  \/ VolumeReply
  \/ RetryVolumeReadWake
  \/ DevApply
  \/ DevAck
  \/ \E b \in NakBytes : DevNak(b)
  \/ SendFail
  \/ RetryWriteWake

RaceSpec == InitVolume /\ [][NextRace]_vars

\* ------------------------------------------------------------------ claims
\* a caller inside _send_message: its command is written, its reply not yet read
InExchange(t) == task[t].pc \in {"drain_yield", "reading", "read_busy"}

SockOpen(s) == s # None /\ sock[s] = "open"

\* C1: at most one exchange (_send_message: write, drain, wait for the reply)
\* is in flight on the connection at any time.
C1_OneExchangeInFlight ==
  Cardinality({t \in Tasks : InExchange(t)}) <= 1

\* C2: a send_message call of which an attempt failed on a closed socket, while
\* the speaker accepts every connection and answers every command and only that
\* one socket was ever closed, returns the reply within its attempts.
C2_ReconnectsAfterClose ==
  \A t \in Tasks :
    ( /\ task[t].op = "send_message"
      /\ task[t].pc = "done"
      /\ task[t].sawClosed
      /\ ~task[t].envFault
      /\ Cardinality({s \in SockIds : sock[s] \notin {"none", "open"}}) = 1 )
    => task[t].result = "reply"

\* C3: the communicator holds handles (is_connected) if and only if the
\* underlying socket is open.
C3_ConnectedIffSocketOpen ==
  is_connected <=> (SockOpen(_writer) /\ SockOpen(_reader))

\* the connection has been without activity for more than _KEEP_ALIVE seconds
Expired == now - _last_time_stamp > _KEEP_ALIVE

\* C4: an open connection that has been idle for more than _KEEP_ALIVE seconds
\* is eventually disconnected by the idle task (unless an exchange refreshes it
\* or the peer resets it first); and an open_connection that finds
\* is_connected false starts a connect attempt, whose success installs a
\* socket that was never used before.
C4_IdleDisconnect ==
  /\ (is_connected /\ SockOpen(_writer) /\ Expired)
       ~> (~is_connected \/ ~Expired \/ sock[_writer] = "reset")
  /\ [][\A t \in Tasks :
          /\ ( /\ task[t].pc \in {"idle", "done", "retry_wait"}
               /\ task'[t] # task[t]
               /\ ~is_connected )
             => task'[t].pc = "connecting"
          /\ (task[t].pc = "connecting" /\ task'[t].conn = "ok")
             => ( /\ sock[_writer'] = "none"
                  /\ sock'[_writer'] = "open"
                  /\ _reader' = _writer' )
     ]_vars

\* C4 witness: socket 1 was closed by the idle task after its idle period and a
\* later open_connection has installed socket 2.
C4_Witness ==
  /\ sock[1] = "closed"
  /\ _writer = 2
  /\ sock[2] = "open"
  /\ \E t \in Tasks : task[t].ocOut = "ok"

\* a caller enters open_connection in this step (a call starts, or the retry
\* decorator runs the body again)
EntersOpen(t) ==
  task[t].pc \in {"idle", "done", "retry_wait"} /\ task'[t] # task[t]

\* C5: open_connection called while connected returns at once, opens no
\* socket and sets _last_time_stamp to the current time.
C5_AliveRefreshesStamp ==
  [][\A t \in Tasks :
       (EntersOpen(t) /\ is_connected)
       => ( /\ task'[t].ocOut = "alive"
            /\ sock' = sock
            /\ _last_time_stamp' = now' )
    ]_vars

\* C6: when the endpoint accepts a connect attempt, open_connection returns
\* normally, and at that moment both handles are set to the new open socket,
\* _is_online is true and _last_time_stamp is the current time.
C6_ConnectSucceeds ==
  [][\A t \in Tasks :
       (task[t].pc = "connecting" /\ task'[t].conn = "ok")
       => ( /\ task'[t].ocOut = "ok"
            /\ _reader' # None
            /\ _writer' # None
            /\ sock'[_writer'] = "open"
            /\ sock'[_reader'] = "open"
            /\ _is_online'
            /\ _last_time_stamp' = now'
            /\ task'[t].pc \in {"reading", "done"}
            /\ task[t].op = "is_online"
                 => (task'[t].pc = "done" /\ task'[t].result = "online") )
    ]_vars

\* C6 witness: the connection was accepted at the last attempt of the budget,
\* after nine refusals, and is_online has returned true.
C6_Witness ==
  \E t \in Tasks :
    /\ task[t].ocOut = "ok"
    /\ task[t].ocAttempts = _MAX_CONNECTION_RETRIES
    /\ ~task[t].blocked
    /\ task[t].result = "online"
    /\ is_connected
    /\ _is_online

\* C7: against an endpoint that refuses every attempt, open_connection makes
\* exactly _MAX_CONNECTION_RETRIES connect attempts with a sleep before each
\* further one, then sets _is_online to false and fails with "tries exceeded",
\* with no handles set.
C7_RefusedExhausts ==
  /\ [](\A t \in Tasks :
          /\ (task[t].pc \in {"connecting", "oc_sleep"} /\ ~task[t].blocked)
             => task[t].ocAttempts <= _MAX_CONNECTION_RETRIES
          /\ (task[t].ocOut = "exceeded" /\ ~task[t].blocked)
             => task[t].ocAttempts = _MAX_CONNECTION_RETRIES)
  /\ [][\A t \in Tasks :
          /\ (task[t].pc = "connecting" /\ task'[t].conn = "refused")
             => task'[t].pc = "oc_sleep"
          /\ (task[t].pc = "oc_sleep" /\ task'[t].pc \notin {"oc_sleep", "connecting"})
             => ( /\ task'[t].ocOut = "exceeded"
                  /\ ~_is_online'
                  /\ ~is_connected'
                  /\ task'[t].pc \in {"retry_wait", "done"}
                  /\ task[t].op = "is_online"
                       => (task'[t].pc = "done" /\ task'[t].result = "offline") )
     ]_vars

\* C7 witness: is_online has returned false after ten refused attempts.
C7_Witness ==
  \E t \in Tasks :
    /\ task[t].ocOut = "exceeded"
    /\ ~task[t].blocked
    /\ task[t].ocAttempts = _MAX_CONNECTION_RETRIES
    /\ task[t].result = "offline"
    /\ ~_is_online

\* C8: when a connect attempt fails terminally, open_connection sets
\* _is_online to false and fails with "speaker offline" in the same step: it
\* makes no further connect attempt in that call and changes no handle.
C8_TerminalFailsAtOnce ==
  /\ [](\A t \in Tasks :
          task[t].conn = "terminal" => task[t].pc \notin {"connecting", "oc_sleep"})
  /\ [][\A t \in Tasks :
          (task[t].pc = "connecting" /\ task'[t].conn = "terminal")
          => ( /\ task'[t].ocOut = "offline"
               /\ ~_is_online'
               /\ task'[t].ocAttempts = task[t].ocAttempts
               /\ task'[t].pc \in {"retry_wait", "done"}
               /\ UNCHANGED <<_reader, _writer, sock>>
               /\ task[t].op = "is_online"
                    => (task'[t].pc = "done" /\ task'[t].result = "offline") )
     ]_vars

\* C8 witness: a terminal failure at the third attempt, after two refusals.
C8_Witness ==
  \E t \in Tasks :
    /\ task[t].conn = "terminal"
    /\ task[t].ocOut = "offline"
    /\ task[t].ocAttempts = 3
    /\ ~_is_online

\* C9: one open_connection call makes at most _MAX_CONNECTION_RETRIES connect
\* attempts, whatever the order of refusals and BlockingIOErrors.
C9_AtMostMaxAttempts ==
  \A t \in Tasks : task[t].ocAttempts <= _MAX_CONNECTION_RETRIES

\* C10: every call a caller has started eventually returns or raises.
C10_EveryCallEnds ==
  \A t \in Tasks : (task[t].pc \notin {"idle", "done"}) ~> (task[t].pc = "done")

\* the read of caller t's exchange ends by wait_for's timeout in this step
TimesOut(t) ==
  task[t].pc = "reading" /\ task'[t].pc # "reading" /\ task'[t].fail = "timeout"

\* C11: when no reply arrives within _TIMEOUT, _send_message raises (it returns
\* no value) and leaves both handles, _is_online and the socket as they were;
\* the attempt that follows while the handles are set opens no socket and runs
\* its exchange on that same socket.
C11_TimeoutKeepsConnection ==
  [][\A t \in Tasks :
       /\ TimesOut(t)
          => ( /\ task'[t].result # "reply"
               /\ task'[t].value = Unbound
               /\ task'[t].pc \in {"retry_wait", "done"}
               /\ task'[t].pc = "done" => task'[t].result = "error"
               /\ UNCHANGED <<_reader, _writer, _is_online, sock>> )
       /\ ( /\ task[t].pc = "retry_wait"
            /\ task[t].fail = "timeout"
            /\ task'[t] # task[t]
            /\ is_connected )
          => ( /\ task'[t].ocOut = "alive"
               /\ UNCHANGED <<_reader, _writer, _is_online, sock>>
               /\ task'[t].pc \in {"reading", "drain_yield"}
                    => task'[t].xsock = _writer )
    ]_vars

\* C11 witness: the first attempt timed out on socket 1 and the second attempt
\* waits for its reply on socket 1, found connected.
C11_Witness ==
  \E t \in Tasks :
    /\ task[t].attempt = 2
    /\ task[t].fail = "timeout"
    /\ task[t].ocOut = "alive"
    /\ task[t].pc = "reading"
    /\ task[t].xsock = 1
    /\ _writer = 1
    /\ sock[1] = "open"
    /\ _is_online

\* C12: _send_message returns a value exactly when read() returned 2 bytes or
\* more, and the value is the second-to-last byte of that buffer; on a
\* timeout, on 1 byte and on the empty read at end of stream it raises and
\* returns neither a number nor None.
C12_ReturnsSecondToLast ==
  [][\A t \in Tasks :
       (task[t].pc = "reading" /\ task'[t].pc # "reading")
       => ( /\ task'[t].result = "reply" <=> Len(task'[t].data) >= 2
            /\ task'[t].result = "reply"
                 => task'[t].value = task'[t].data[Len(task'[t].data) - 1]
            /\ (task'[t].fail \in {"timeout", "short", "eof"}
                  \/ Len(task'[t].data) < 2)
                 => ( /\ task'[t].result # "reply"
                      /\ task'[t].value = Unbound
                      /\ task'[t].pc \in {"retry_wait", "done"}
                      /\ task'[t].pc = "done" => task'[t].result = "error" ) )
    ]_vars

\* C12 witness: a reply of 3 bytes whose middle byte differs from both others
\* was returned from.
C12_Witness ==
  \E t \in Tasks :
    /\ task[t].result = "reply"
    /\ Len(task[t].data) = 3
    /\ task[t].data[2] # task[t].data[1]
    /\ task[t].data[2] # task[t].data[3]
    /\ task[t].value = task[t].data[2]

\* a call of _disconnect by the idle task ends in this step
DisconnectEnds ==
  /\ \/ idle_pc = "closing"
     \/ idle_pc = "check" /\ is_connected /\ time_is_up
  /\ idle_pc' \in {"sleep", "dead"}

\* C13: a call of _disconnect made while connected ends with both handles
\* cleared, and leaves _is_online and _last_time_stamp unchanged.
C13_DisconnectClearsHandles ==
  [][DisconnectEnds
       => ( /\ _reader' = None
            /\ _writer' = None
            /\ UNCHANGED <<_is_online, _last_time_stamp>> )
    ]_vars

\* C14: a handle is cleared only by the idle task's _disconnect, and the
\* client closes a socket only in an idle tick that finds is_connected true
\* and now - _last_time_stamp > _KEEP_ALIVE, and then the socket of _writer:
\* a connection stamped within the keep-alive window is never closed by the
\* client.
C14_ClosedOnlyWhenExpired ==
  [][/\ ((_reader # None /\ _reader' = None) \/ (_writer # None /\ _writer' = None))
        => ( /\ idle_pc \in {"check", "closing"}
             /\ idle_pc' = "sleep"
             /\ idle_pc = "check" => Expired )
     /\ \A s \in SockIds :
          (sock[s] # "closing" /\ sock'[s] = "closing")
          => ( /\ idle_pc = "check"
               /\ idle_pc' = "closing"
               /\ is_connected
               /\ Expired
               /\ s = _writer )
     /\ (idle_pc = "check" /\ idle_pc' = "closing") => (is_connected /\ Expired)
    ]_vars

\* C14 witness: the idle task has closed the socket of a connection stamped
\* one second more than _KEEP_ALIVE seconds ago.
C14_Witness ==
  /\ idle_pc = "closing"
  /\ idle_sock = _writer
  /\ sock[idle_sock] = "closing"
  /\ now - _last_time_stamp = _KEEP_ALIVE + 1

\* C15: the idle task keeps ticking for the whole life of the communicator:
\* whatever a tick did, a later tick follows.
C15_IdleTaskKeepsTicking ==
  []<>(idle_pc = "check")

\* the exception an attempt of send_message ends with, by how it failed
ExcOf(fail) ==
  CASE fail \in {"offline", "exceeded"} -> "ConnectionRefusedError"
    [] fail = "drain" -> "ConnectionResetError"
    [] fail \in {"timeout", "reset", "busy"} -> "UnboundLocalError"
    [] fail \in {"short", "eof"} -> "IndexError"
    [] OTHER -> "none"

\* C16: a retried call makes at most _MAX_SEND_MESSAGE_TRIES attempts, and when
\* every attempt failed it fails to its caller with the failure of the final
\* attempt.
C16_FailsWithLastFailure ==
  \A t \in Tasks :
    /\ task[t].attempt <= _MAX_SEND_MESSAGE_TRIES
    /\ (task[t].pc = "done" /\ task[t].result = "error")
       => ( /\ task[t].attempt = _MAX_SEND_MESSAGE_TRIES
            /\ task[t].raised = ExcOf(task[t].fail) )

\* C17: for every reply byte r to get_source, get_source_and_state returns
\* (INPUT_SOURCES_RESPONSE[r % 128], r <= 128) when r % 128 is one of 18, 25,
\* 26, 27, 28, 31; for every other r the attempt fails, and the call fails
\* after at most _MAX_ATTEMPT_TILL_SUCCESS attempts.
C17_DecodesSourceAndState ==
  /\ [](sp.op = "get_source_and_state"
          => ( /\ sp.inner <= _MAX_ATTEMPT_TILL_SUCCESS
               /\ (sp.pc = "done" /\ sp.result = "error")
                    => sp.inner = _MAX_ATTEMPT_TILL_SUCCESS ))
  /\ [][( /\ sp.op = "get_source_and_state"
          /\ sp.pc = "read"
          /\ sp'.rreply # Unbound )
        => LET r == sp'.rreply
           IN  /\ r = dev.source
               /\ IF r % 128 \in {18, 25, 26, 27, 28, 31}
                  THEN /\ sp'.pc = "done"
                       /\ sp'.result = "ok"
                       /\ sp'.got_source = INPUT_SOURCES_RESPONSE(r % 128)
                       /\ sp'.got_is_on = (r <= 128)
                  ELSE /\ sp'.result # "ok"
                       /\ sp'.pc \in {"retry_read", "done"}
                       /\ sp'.pc = "done" => sp.inner = _MAX_ATTEMPT_TILL_SUCCESS
     ]_vars

\* C17 witness: the reply 159 (31 + 128) was decoded to Bluetooth, off, at the
\* last attempt.
C17_Witness ==
  /\ sp.op = "get_source_and_state"
  /\ sp.pc = "done"
  /\ sp.rreply = 159
  /\ sp.got_source = "Bluetooth"
  /\ ~sp.got_is_on
  /\ sp.inner = _MAX_ATTEMPT_TILL_SUCCESS

\* C18: set_source and _set_volume return normally only if the reply to the
\* write of the attempt that completed was _RESPONSE_OK; when the device
\* answered every write with another byte the call fails, after
\* _MAX_ATTEMPT_TILL_SUCCESS attempts.
C18_WriteNeedsOk ==
  (sp.op \in {"set_source", "_set_volume"} /\ sp.pc = "done")
  => ( /\ sp.result = "ok" => sp.wreply = _RESPONSE_OK
       /\ ~sp.acked
            => ( /\ sp.result = "error"
                 /\ sp.outer = _MAX_ATTEMPT_TILL_SUCCESS
                 /\ sp.writes = _MAX_ATTEMPT_TILL_SUCCESS ) )

\* C18 witness: five writes, each answered with a byte other than
\* _RESPONSE_OK, and the call has failed.
C18_Witness ==
  /\ sp.op = "_set_volume"
  /\ sp.pc = "done"
  /\ sp.result = "error"
  /\ sp.nak
  /\ ~sp.acked
  /\ ~sp.ioFail
  /\ sp.writes = _MAX_ATTEMPT_TILL_SUCCESS
  /\ sp.wreply \in NakBytes

\* C19: a set_source call whose polls never saw the requested source fails: it
\* does not return as if the source had been set.
C19_UnconfirmedFails ==
  (sp.op = "set_source" /\ sp.pc = "done" /\ ~sp.matched) => sp.result = "error"

\* C20: the byte set_source writes for a source and a state, read back as the
\* reply to get_source, decodes to that source with is_on = (state = "on"), and
\* set_source returns on it; against a device that applies the write and
\* answers every exchange, set_source sends one set command and returns after
\* its first poll.
C20_SetSourceRoundTrip ==
  /\ []((sp.op = "set_source" /\ sp.pc = "done"
           /\ ~sp.ioFail /\ ~sp.nak /\ ~sp.stale)
          => ( /\ sp.result = "ok"
               /\ sp.matched
               /\ sp.writes = 1
               /\ sp.poll = 1
               /\ sp.inner = 1 ))
  /\ [][( /\ sp.op = "set_source"
          /\ sp.pc = "read"
          /\ sp'.rreply = sp.code )
        => ( /\ sp'.pc = "done"
             /\ sp'.result = "ok"
             /\ sp'.got_source = sp.source
             /\ sp'.got_is_on = (sp.state = "on") )
     ]_vars

\* C20 witness: set_source("Usb", state="off") wrote 156, the device applied
\* it, and the first poll confirmed it.
C20_Witness ==
  /\ sp.op = "set_source"
  /\ sp.pc = "done"
  /\ sp.source = "Usb"
  /\ sp.state = "off"
  /\ sp.code = 156
  /\ dev.source = 156
  /\ sp.matched
  /\ ~sp.got_is_on
  /\ sp.writes = 1
  /\ sp.poll = 1

VolumeAnswered == sp.pc = "vread" /\ sp'.vraw # Unbound

\* C22: for every volume byte v replied to get_volume,
\* get_volume_and_is_muted(scale=True) returns (v / 100, muted) and
\* get_volume_and_is_muted(scale=False) returns (v, muted), with muted true
\* exactly when v >= 128; is_muted returns that flag.
C22_VolumeAndMuteFlag ==
  [][/\ (sp.op = "get_volume_and_is_muted" /\ VolumeAnswered)
        => LET v == dev.volume
           IN  /\ sp'.pc = "done"
               /\ sp'.result = "ok"
               /\ sp'.got_muted = (v >= 128)
               /\ IF sp.scale
                  THEN /\ sp'.got_unit = "scaled"
                       /\ sp'.got_volume * _VOLUME_SCALE = v * Unit
                  ELSE /\ sp'.got_unit = "raw"
                       /\ sp'.got_volume = v
     /\ (sp.op = "is_muted" /\ VolumeAnswered)
        => ( /\ sp'.pc = "done"
             /\ sp'.result = "ok"
             /\ sp'.got_muted = (dev.volume >= 128) )
    ]_vars

\* C22 witness: the byte 128 was returned as 1.28, muted.
C22_Witness ==
  /\ sp.op = "get_volume_and_is_muted"
  /\ sp.pc = "done"
  /\ sp.scale
  /\ sp.vraw = 128
  /\ sp.got_volume * _VOLUME_SCALE = 128 * Unit
  /\ sp.got_muted

\* C23: for every volume byte v, get_volume returns None exactly when
\* v >= 128 and v / 100 otherwise: 0 unmuted is returned as 0.0.
C23_GetVolumeNoneIffMuted ==
  [][(sp.op = "get_volume" /\ VolumeAnswered)
       => LET v == dev.volume
          IN  /\ sp'.pc = "done"
              /\ sp'.result = "ok"
              /\ IF v >= 128
                 THEN sp'.got_unit = "none" /\ sp'.got_volume = Unbound
                 ELSE /\ sp'.got_unit = "scaled"
                      /\ sp'.got_volume * _VOLUME_SCALE = v * Unit
    ]_vars

\* C23 witness: the byte 0 was returned as 0.0.
C23_Witness ==
  /\ sp.op = "get_volume"
  /\ sp.pc = "done"
  /\ sp.vraw = 0
  /\ sp.got_unit = "scaled"
  /\ sp.got_volume = 0

\* C24: set_volume(x) writes int(c * 100) for c = max(0, min(maximum_volume,
\* x)) in every attempt, and returns c after the reply _RESPONSE_OK.
C24_SetVolumeClamps ==
  (sp.op = "set_volume")
  => LET c == IF sp.value < 0 THEN 0
              ELSE IF sp.value > sp.maximum_volume THEN sp.maximum_volume
              ELSE sp.value
     IN  /\ sp.code = (c * _VOLUME_SCALE) \div Unit
         /\ sp.pc = "done"
              => ( /\ sp.result = "ok" => (sp.ret = c /\ sp.wreply = _RESPONSE_OK)
                   /\ sp.result # "ok" => sp.ret = Unbound )

\* C24 witness: set_volume(2.0) with maximum_volume 0.4 wrote 40 and returned
\* 0.4.
C24_Witness ==
  /\ sp.op = "set_volume"
  /\ sp.pc = "done"
  /\ sp.value = 2 * Unit
  /\ sp.maximum_volume = 400
  /\ sp.ret = 400
  /\ sp.code = 40
  /\ dev.volume = 40

\* C25: _change_volume(step), when every exchange succeeds, returns
\* set_volume(L + step), L being the level (byte % 128, scaled) the speaker
\* had before the change, muted or not.
C25_ChangeFromLevel ==
  (sp.op = "_change_volume" /\ sp.pc = "done"
     /\ ~sp.ioFail /\ ~sp.nak /\ ~sp.stale)
  => LET L == ((sp.vfirst % 128) * Unit) \div _VOLUME_SCALE
     IN  /\ sp.result = "ok"
         /\ sp.ret = Max(0, Min(sp.maximum_volume, L + sp.step))

\* C26: mute writes v % 128 + 128 and unmute v % 128 for the byte v read: a
\* mute or unmute leaves the device's level (byte % 128) as it was, and leaves
\* the byte itself as it was on a device that is muted (unmuted) already.
C26_MuteKeepsLevel ==
  [][(sp.op \in {"mute", "unmute"} /\ sp'.op = sp.op)
       => LET bit == IF sp.op = "mute" THEN 128 ELSE 0
          IN  /\ (sp.pc = "vread" /\ sp'.pc = "write")
                 => sp'.code = (dev.volume % 128) + bit
              /\ dev'.volume % 128 = dev.volume % 128
              /\ dev' # dev => dev'.volume = (dev.volume % 128) + bit
              /\ (dev.volume >= 128 <=> sp.op = "mute") => dev' = dev
    ]_vars

\* C26 witness: mute on a device already muted (byte 205) wrote 205 again.
C26_Witness ==
  /\ sp.op = "mute"
  /\ sp.pc = "done"
  /\ sp.result = "ok"
  /\ sp.vraw = 205
  /\ sp.code = 205
  /\ sp.acked
  /\ ~sp.stale
  /\ dev.volume = 205

\* C21: set_source does not retry a get_source of its loop that fails: the
\* failure leaves the attempt of set_source, and the retry of set_source runs
\* the whole body again, writing the source again before it polls again.
C21_PollFailureRerunsWrite ==
  /\ [](sp.op = "set_source" /\ sp.pc \in {"read", "retry_read", "poll_sleep"}
          => (sp.wreply = _RESPONSE_OK /\ sp.writes = sp.outer))
  /\ [][(sp.op = "set_source" /\ sp'.op = "set_source")
          => /\ (sp.pc = "read" /\ sp.inner = _MAX_ATTEMPT_TILL_SUCCESS
                   /\ sp'.rreply = Unbound)
                => ( /\ sp'.pollFail
                     /\ sp'.poll = sp.poll
                     /\ IF sp.outer < _MAX_ATTEMPT_TILL_SUCCESS
                        THEN sp'.pc = "retry_write"
                        ELSE sp'.pc = "done" /\ sp'.result = "error" )
             /\ sp.pc = "retry_write"
                => ( /\ sp'.pc = "write"
                     /\ sp'.code = sp.code
                     /\ sp'.writes = sp.writes + 1
                     /\ sp'.outer = sp.outer + 1
                     /\ sp'.poll = 0 )
     ]_vars

\* C21 witness: the device kept reporting another valid source, a poll failed
\* in send_message, and the second attempt has written the source again and
\* polls again.
C21_Witness ==
  /\ sp.op = "set_source"
  /\ sp.pc = "read"
  /\ sp.pollFail
  /\ sp.outer = 2
  /\ sp.writes = 2
  /\ sp.poll = 1
  /\ sp.wreply = _RESPONSE_OK
  /\ dev.source # sp.code
  /\ SourceAndState(dev.source).source # "none"

\* the device answers the get_source of the running command in this step, with
\* a byte that decodes to a source
SourceAnswered ==
  /\ sp.pc = "read"
  /\ sp'.rreply # Unbound
  /\ SourceAndState(sp'.rreply).source # "none"

\* C28: turn_on while the device reports on, and turn_off while it reports
\* off, return after the first get_source read: no set_source is written and
\* the device is as it was.
C28_NoWriteInTargetState ==
  /\ [](sp.op \in PowerOps /\ sp.stage = "check" => sp.writes = 0)
  /\ [][(sp.op \in PowerOps /\ sp.stage = "check")
          => /\ dev' = dev
             /\ (SourceAnswered
                   /\ (dev.source <= 128 <=> sp.op = "turn_on"))
                => ( /\ sp'.pc = "done"
                     /\ sp'.result = "ok"
                     /\ sp'.stage = "check"
                     /\ sp'.writes = 0
                     /\ ~sp.ioFail => sp'.inner = 1 )
     ]_vars

\* C28 witness: turn_off on a device that is off (Wifi, byte 146) returned
\* after one read.
C28_Witness ==
  /\ sp.op = "turn_off"
  /\ sp.pc = "done"
  /\ sp.result = "ok"
  /\ sp.stage = "check"
  /\ sp.inner = 1
  /\ sp.writes = 0
  /\ sp.rreply = 146
  /\ dev.source = 146

\* C29: after set_source, turn_on (turn_off) calls is_on at most
\* _MAX_ATTEMPT_TILL_SUCCESS times: it returns at the first call that reports
\* the target state, and after the last sleep it returns normally.
C29_ConfirmLoopBounded ==
  /\ [](sp.op \in PowerOps
          => ( /\ sp.tpoll <= _MAX_ATTEMPT_TILL_SUCCESS
               /\ sp.stage = "confirm" => (sp.tpoll >= 1 /\ sp.acked) ))
  /\ [][(sp.op \in PowerOps /\ sp.stage = "confirm")
          => /\ SourceAnswered
                => IF dev.source <= 128 <=> sp.op = "turn_on"
                   THEN /\ sp'.pc = "done"
                        /\ sp'.result = "ok"
                        /\ sp'.tpoll = sp.tpoll
                   ELSE /\ sp'.pc = "confirm_sleep"
                        /\ sp'.tpoll = sp.tpoll
             /\ sp.pc = "confirm_sleep"
                => IF sp.tpoll < _MAX_ATTEMPT_TILL_SUCCESS
                   THEN \/ sp' = sp
                        \/ sp'.pc = "read" /\ sp'.tpoll = sp.tpoll + 1
                   ELSE \/ sp' = sp
                        \/ /\ sp'.pc = "done"
                           /\ sp'.result = "ok"
                           /\ sp'.raised = "none"
                           /\ sp'.tpoll = sp.tpoll
             /\ sp.pc = "done" => sp' = sp
     ]_vars

\* C29 witness: the device took the write and stayed off: turn_on returned
\* normally after the fifth is_on.
C29_Witness ==
  /\ sp.op = "turn_on"
  /\ sp.pc = "done"
  /\ sp.result = "ok"
  /\ sp.raised = "none"
  /\ sp.stage = "confirm"
  /\ sp.tpoll = _MAX_ATTEMPT_TILL_SUCCESS
  /\ sp.acked
  /\ ~sp.ioFail
  /\ ~sp.got_is_on
  /\ dev.source > 128

\* C30: a call speaker.sync.m() runs the coroutine m to its end and ends as
\* awaiting m ends: for get_volume, is_muted, mute and unmute, after at least
\* one get_volume exchange, with m's result or with the RetryError m raises.
C30_SyncEndsAsAwaited ==
  (sp.sync /\ sp.pc = "done")
  => ( /\ sp.inner >= 1
       /\ sp.raised \in {"none", "RetryError"} )

\* an exchange of t ends in this step without returning a reply byte
ExchangeFails(t) ==
  /\ task[t].pc = "reading"
  /\ task'[t].pc \in {"retry_wait", "done"}
  /\ task'[t].result # "reply"

\* C31: an exchange that fails (a timeout, an empty read at end of stream, a
\* reply shorter than 2 bytes) leaves _last_time_stamp as it was.
C31_FailedExchangeKeepsStamp ==
  [][\A t \in Tasks :
       ExchangeFails(t) => _last_time_stamp' = _last_time_stamp
    ]_vars

\* C32: a value send_message returns is the device's answer to the command of
\* that call, never the answer to a command of an earlier call.
C32_ReplyBelongsToCall ==
  \A t \in Tasks :
    (task[t].pc = "done" /\ task[t].result = "reply")
    => task[t].value = DeviceReply(task[t].msg)

\* C33: whenever the communicator holds connection handles, _is_online is
\* true.
C33_ConnectedImpliesOnline == is_connected => _is_online

\* C34: the communicator has at most one open socket, and an open socket is
\* the one its handles point to.
C34_OneOpenSocket ==
  /\ Cardinality({s \in SockIds : sock[s] = "open"}) <= 1
  /\ \A s \in SockIds : sock[s] = "open" => (_reader = s /\ _writer = s)

\* C35: while a _send_message call is under way (from its assertions to its
\* return or raise), both handles are set.
C35_HandlesSetDuringExchange ==
  \A t \in Tasks :
    task[t].pc \in {"drain_yield", "reading", "read_busy"}
    => (_reader # None /\ _writer # None)

\* C36: the byte set_volume writes is in 0..100, so below 128: the write
\* never sets the mute bit, and a set_volume that the device applied leaves
\* it unmuted at the byte written, muted before or not.
C36_SetVolumeNeverMutes ==
  /\ [](sp.stage = "set_volume" => sp.code \in 0..100)
  /\ [](sp.op = "set_volume" /\ sp.pc = "done" /\ sp.result = "ok" /\ ~sp.stale
          => (dev.volume = sp.code /\ dev.volume < 128))
  /\ [][(sp.stage = "set_volume" /\ dev' # dev)
          => (dev'.volume = sp.code /\ dev'.volume < 128)
     ]_vars

\* C36 witness: set_volume(2.0) on a muted speaker left it unmuted at 100.
C36_Witness ==
  /\ sp.op = "set_volume"
  /\ sp.pc = "done"
  /\ sp.result = "ok"
  /\ ~sp.stale
  /\ sp.before >= 128
  /\ sp.value = 2 * Unit
  /\ sp.code = 100
  /\ dev.volume = 100

\* C37: a _change_volume call (increase_volume, decrease_volume) that raises
\* has written nothing, and the device's volume byte is the one the call
\* first read.
C37_FailedChangeWroteNothing ==
  (sp.op = "_change_volume" /\ sp.pc = "done" /\ sp.result = "error")
  => ( /\ sp.writes = 0
       /\ sp.vfirst # Unbound => dev.volume = sp.vfirst )

\* C38: when a set_volume of another coroutine completed while mute or unmute
\* ran, and the device applied the last write of the mute or unmute, the
\* device's level (byte % 128) is the level set_volume wrote, as in either
\* serial order of the two.
C38_MuteKeepsConcurrentLevel ==
  (sp.op \in {"mute", "unmute"} /\ sp.pc = "done" /\ sp.result = "ok"
     /\ ~sp.stale /\ sp.other # Unbound)
  => dev.volume % 128 = sp.other % 128

Returns == {0, _RESPONSE_OK}

\* the classes the decorator is given
Checked == {"ConnectionError", "OSError"}

InitRetry ==
  /\ InitCommon
  /\ callsLeft = [t \in Tasks |-> 0]
  /\ dev = DevInit
  /\ sp = SpInit

NextRetry ==
  \/ \E E \in Checked, n \in 1..MaxTries : f_retry(E, n)
  \/ \E v \in Returns : FReturns(v)
  \/ \E e \in Exceptions : FRaises(e)
  \/ FSleepDone

RetrySpec == InitRetry /\ [][NextRetry]_vars

\* C40: through retry(E, tries=n) the function is called at most n times per
\* call of the wrapper; the first call that does not raise ends the loop and
\* its value is returned; an exception of class E raised by the n-th call
\* reaches the caller, an exception of another class reaches the caller at
\* once; only an exception of class E raised by a call before the n-th leads
\* to another call.
C40_RetryCallsAtMostTries ==
  /\ [](rt.calls <= rt.tries)
  /\ [](rt.pc = "sleep" => rt.calls < rt.tries)
  /\ [][rt.pc = "call" /\ rt' # rt
          => CASE rt'.last = "return"
                    -> /\ rt'.pc = "done"
                       /\ rt'.result = "ok"
                       /\ rt'.ret = rt'.fval
                       /\ rt'.calls = rt.calls
               [] rt'.last # "return" /\ ~Catches(rt.exc, rt'.last)
                    -> /\ rt'.pc = "done"
                       /\ rt'.result = "error"
                       /\ rt'.raised = rt'.last
                       /\ rt'.calls = rt.calls
               [] rt'.last # "return" /\ Catches(rt.exc, rt'.last)
                    /\ rt.calls = rt.tries
                    -> /\ rt'.pc = "done"
                       /\ rt'.result = "error"
                       /\ rt'.raised = rt'.last
               [] OTHER -> rt'.pc = "sleep"
     ]_vars
  /\ [][rt.pc = "sleep" /\ rt' # rt
          => rt'.pc = "call" /\ rt'.calls = rt.calls + 1]_vars

\* C40 witness: the fifth of five calls raised ConnectionRefusedError, which
\* reached the caller of a function decorated with retry(ConnectionError, 5).
C40_Witness ==
  /\ rt.pc = "done"
  /\ rt.exc = "ConnectionError"
  /\ rt.tries = _MAX_SEND_COMMAND_TRIES
  /\ rt.calls = _MAX_SEND_COMMAND_TRIES
  /\ rt.result = "error"
  /\ rt.raised = "ConnectionRefusedError"

====
